---- MODULE Spec2Model ----
(***************************************************************************)
(* Model of the Zoom Rooms SDK microservice (src/service/app.py).          *)
(*                                                                         *)
(* The service runs on one asyncio event loop.  A coroutine runs without   *)
(* interruption from one await to the next, so every action below is the   *)
(* code between two suspension points of a handler.  The driver (the       *)
(* native SDK) is a black box: its synchronous calls return a result code  *)
(* chosen nondeterministically, and it invokes the registered sinks        *)
(* (OnPairRoomResult, OnZRConnectionStateChanged) unsolicited, from inside *)
(* HeartBeat(), between two steps of the handlers.                         *)
(*                                                                         *)
(* asyncio.Event: set() marks the flag and resolves the futures of the     *)
(* waiters; a resolved waiter resumes on a later iteration of the loop and *)
(* its wait() returns True whatever happened to the flag meanwhile.        *)
(* asyncio.wait_for: the timeout can only fire while the waiter is still   *)
(* unresolved.                                                             *)
(***************************************************************************)
EXTENDS Integers, Sequences, FiniteSets, TLC

\* ---------------------------------------------------------------- bounds
\* Number of pair requests issued over a run.
MaxReq == 2
\* Number of sink callbacks the driver delivers over a run.
MaxCallbacks == 2

\* ------------------------------------------------------------- constants
RoomIds == {"roomA", "roomB"}
\* The one room the driver may report as previously paired at startup.
StoredRoom == "roomB"
Tasks == 1..MaxReq

ZRCSDKERR_SUCCESS == 0
ZRCSDKERR_WRONG_USAGE == 1
DriverResults == {ZRCSDKERR_SUCCESS, ZRCSDKERR_WRONG_USAGE}

PAIR_RESULT_TIMEOUT == -1
\* The timeout arguments of the two wait_for calls of pair_room, in seconds.
PAIR_EVENT_TIMEOUT == 30
CONNECTED_EVENT_TIMEOUT == 60
INVALID_ACTIVATION_CODE == 30055016
PairCodes == {0, INVALID_ACTIVATION_CODE}
\* A pairing result code the error_messages table of pair_room does not hold.
UnmappedCode == 7
\* Every key of the error_messages table, an unmapped code, and success.
TableCodes == {0, INVALID_ACTIVATION_CODE, 100, 101, 102, UnmappedCode}

ConnectionStateConnected == "ConnectionStateConnected"
ConnectionStateDisconnected == "ConnectionStateDisconnected"
ConnectionStates == {ConnectionStateConnected, ConnectionStateDisconnected}

\* Optional[int]: None is the empty tuple, a value v is <<v>>.
None == <<>>
Some(v) == <<v>>

VARIABLES
    lifespan,          \* position of lifespan(): "startup", "serving", "failed"
    sdk,               \* RoomManager.sdk: "None" or "sdk"
    rooms,             \* RoomManager.rooms: room_id -> service handle
    room_sinks,        \* RoomManager.room_sinks: room_id -> ZoomRoomsServiceSink
    premeeting_sinks,  \* RoomManager.premeeting_sinks: room_id -> PreMeetingServiceSink
    heartbeat_task,    \* RoomManager.heartbeat_task: "None", "running", "finished"
    hb_errors,         \* number of "HeartBeat error" lines heartbeat_loop has logged
    sessions,          \* driver: the room id of every service handle it has handed out
    driver_calls,      \* driver: the calls lifespan and pair_room have issued so
                       \* far, as <<name, room_id>>
    task,              \* one record per pair_room request
    delivered,         \* driver: number of sink callbacks delivered so far
    reply              \* the last request served by a handler that never awaits:
                       \* its name, room id, response and the driver calls it made

vars == <<lifespan, sdk, rooms, room_sinks, premeeting_sinks, heartbeat_task,
          hb_errors, sessions, driver_calls, task, delivered, reply>>

\* ------------------------------------------------------------- responses
NoResponse ==
    [kind |-> "none", result |-> 0, success |-> FALSE, message |-> <<>>,
     connection_state |-> "None"]

Http500(detail) ==
    [kind |-> "http500", result |-> 0, success |-> FALSE, message |-> <<detail>>,
     connection_state |-> "None"]

FailedToInitiate(result) ==
    [kind |-> "json", result |-> result, success |-> FALSE,
     message |-> <<"Failed to initiate pairing">>, connection_state |-> "None"]

\* Mutant: the pairing-result timeout reports result 0.
PairResultTimeout_ResultZero ==
    [kind |-> "json", result |-> 0, success |-> FALSE,
     message |-> <<"Timeout waiting for pairing result">>,
     connection_state |-> "None"]

PairResultTimeout ==
    [kind |-> "json", result |-> PAIR_RESULT_TIMEOUT, success |-> FALSE,
     message |-> <<"Timeout waiting for pairing result">>,
     connection_state |-> "None"]

\* Mutant: the table lookup is dropped, every code gets the generic message.
error_messages_Generic(code) == <<"Pairing failed with code", code>>

error_messages(code) ==
    CASE code = INVALID_ACTIVATION_CODE -> <<"Invalid activation code">>
      [] code = 100 -> <<"Failed to connect to room">>
      [] code = 101 -> <<"Room cannot verify connection">>
      [] code = 102 -> <<"Timeout waiting for room's verify response">>
      [] OTHER -> <<"Pairing failed with code", code>>

PairingFailed(code) ==
    [kind |-> "json", result |-> code, success |-> FALSE,
     message |-> error_messages(code), connection_state |-> "None"]

\* Mutant: the connection timeout returns what the pairing-result timeout returns.
ConnectionTimeout_AsPairTimeout == PairResultTimeout

ConnectionTimeout ==
    [kind |-> "json", result |-> 0, success |-> FALSE,
     message |-> <<"Pairing succeeded but timeout waiting for connection. Room may connect later.">>,
     connection_state |-> "None"]

FullyConnected(state) ==
    [kind |-> "json", result |-> 0, success |-> TRUE,
     message |-> <<"Room successfully paired and connected">>,
     connection_state |-> state]

\* Responses of the handlers that never await.  An HTTPException is its
\* status and detail, a returned dict is status 200 and the dict as a record.
HttpError(status, detail) == [status |-> status, detail |-> detail]
Ok(body) == [status |-> 200, body |-> body]

NoReply == [op |-> "none", room_id |-> "", response |-> [status |-> 0], calls |-> {}]

\* ----------------------------------------------------------------- sinks
NewRoomSink == [pair_result |-> None, pair_event |-> FALSE]
NewPreMeetingSink == [connection_state |-> "None", connected_event |-> FALSE]

\* ZoomRoomsServiceSink.OnPairRoomResult: the sink after the callback.
SinkOnPairRoomResult(sink, result) ==
    [sink EXCEPT !.pair_result = Some(result), !.pair_event = TRUE]

\* Mutant: the sink records the state and never sets connected_event.
SinkOnZRConnectionStateChanged_NoSet(sink, state) ==
    [sink EXCEPT !.connection_state = state]

\* Mutant: the sink sets connected_event on every state change.
SinkOnZRConnectionStateChanged_AnyState(sink, state) ==
    [sink EXCEPT !.connection_state = state, !.connected_event = TRUE]

\* Mutant: the sink records the state only when it is Connected.
SinkOnZRConnectionStateChanged_OnlyConnected(sink, state) ==
    IF state = ConnectionStateConnected
    THEN [sink EXCEPT !.connection_state = state, !.connected_event = TRUE]
    ELSE sink

\* PreMeetingServiceSink.OnZRConnectionStateChanged: the sink after the callback.
SinkOnZRConnectionStateChanged(sink, state) ==
    [sink EXCEPT !.connection_state = state,
                 !.connected_event = IF state = ConnectionStateConnected
                                     THEN TRUE ELSE @]

\* Mutant: pair_room does not reset pair_event.
ClearPairEvent_Kept(sink) == sink

\* room_sink.pair_event.clear() / premeeting_sink.connected_event.clear()
ClearPairEvent(sink) == [sink EXCEPT !.pair_event = FALSE]
ClearConnectedEvent(sink) == [sink EXCEPT !.connected_event = FALSE]

\* Mutant: a wait suspends even when the event is already set.
WaitOn_AlwaysSuspends(flag, name) == "wait_" \o name

\* asyncio.Event.wait() under wait_for: an event that is already set resolves
\* the wait at once, otherwise the caller is suspended on a waiter.
WaitOn(flag, name) == IF flag THEN "woken_" \o name ELSE "wait_" \o name

\* ------------------------------------------------------------- the driver

\* ----------------------------------------------------------------- tasks
\* pc, room_id, room_service, call_result (what PairRoomWithActivationCode
\* returned), pair_result (what the handler read from the sink), timeout (of
\* the wait_for the handler last started, 0 before the first) and response are
\* the handler's own state.  The other fields are history, kept from the
\* event reset of the operation to its return:
\*   overlap          another pair operation on the room was outstanding when
\*                    this one began
\*   first_pair       the code of the first OnPairRoomResult delivered to the room
\*   got_pair0        an OnPairRoomResult(0) was delivered to the room
\*   connected_in     the waits ("pair", "conn") of the operation during which
\*                    an OnZRConnectionStateChanged(Connected) was delivered
\*   connected_after0 one was delivered after an OnPairRoomResult(0)
IdleTask ==
    [pc |-> "idle", room_id |-> "", room_service |-> 0, call_result |-> None,
     pair_result |-> None, timeout |-> 0, response |-> NoResponse,
     overlap |-> FALSE, first_pair |-> None, got_pair0 |-> FALSE,
     connected_in |-> {}, connected_after0 |-> FALSE]

InFlight(t) == task[t].pc \in {"wait_pair", "woken_pair", "wait_conn", "woken_conn"}

Finish(rec, resp) == [rec EXCEPT !.pc = "done", !.response = resp]

\* History: task t, in flight on the room, sees OnPairRoomResult(result).
SeesPairResult(rec, result) ==
    [rec EXCEPT !.first_pair = IF @ = None THEN Some(result) ELSE @,
                !.got_pair0 = @ \/ result = 0]

\* History: task t, in flight on the room, sees OnZRConnectionStateChanged(state).
SeesConnectionState(rec, state) ==
    IF state # ConnectionStateConnected THEN rec
    ELSE [rec EXCEPT
            !.connected_in = @ \cup {IF rec.pc \in {"wait_pair", "woken_pair"}
                                     THEN "pair" ELSE "conn"},
            !.connected_after0 = @ \/ rec.got_pair0]

\* ------------------------------------------------------------------ Init
Init ==
    /\ lifespan = "startup"
    /\ sdk = "None"
    /\ rooms = <<>>
    /\ room_sinks = <<>>
    /\ premeeting_sinks = <<>>
    /\ heartbeat_task = "None"
    /\ hb_errors = 0
    /\ sessions = <<>>
    /\ driver_calls = {}
    /\ task = [t \in Tasks |-> IdleTask]
    /\ delivered = 0
    /\ reply = NoReply

\* ------------------------------------------------- lifespan and heartbeat
\* Mutant: restoration that asks the driver to create a session for the room
\* it restores instead of keeping the handle the driver supplied.
Startup_Recreates(query, stored) ==
    /\ lifespan = "startup"
    /\ IF query = "raise"
       THEN /\ lifespan' = "failed"
            /\ sdk' = "None"
            /\ driver_calls' = driver_calls \cup {<<"RegisterSDKSink", "">>,
                                                  <<"QueryAllZoomRoomsServices", "">>}
            /\ UNCHANGED <<rooms, sessions, heartbeat_task>>
       ELSE /\ lifespan' = "serving"
            /\ sdk' = "sdk"
            /\ heartbeat_task' = "running"
            /\ IF query = "ok" /\ stored = "worker"
               THEN /\ sessions' = Append(Append(sessions, StoredRoom), StoredRoom)
                    /\ rooms' = (StoredRoom :> (Len(sessions) + 2)) @@ rooms
                    /\ driver_calls' = driver_calls \cup
                          {<<"RegisterSDKSink", "">>,
                           <<"QueryAllZoomRoomsServices", "">>,
                           <<"CreateZoomRoomsService", StoredRoom>>}
               ELSE /\ driver_calls' = driver_calls \cup
                          {<<"RegisterSDKSink", "">>,
                           <<"QueryAllZoomRoomsServices", "">>}
                    /\ UNCHANGED <<rooms, sessions>>
    /\ UNCHANGED <<room_sinks, premeeting_sinks, hb_errors, task, delivered, reply>>

\* lifespan() startup: RoomManager.initialize() then start_heartbeat().
\* query is how QueryAllZoomRoomsServices ended, stored what the driver holds
\* for StoredRoom.
Startup(query, stored) ==
    /\ lifespan = "startup"
    /\ driver_calls' = driver_calls \cup {<<"RegisterSDKSink", "">>,
                                          <<"QueryAllZoomRoomsServices", "">>}
    /\ IF query = "raise"
       THEN /\ lifespan' = "failed"
            /\ sdk' = "None"
            /\ UNCHANGED <<rooms, sessions, heartbeat_task>>
       ELSE /\ lifespan' = "serving"
            /\ sdk' = "sdk"
            /\ heartbeat_task' = "running"
            /\ IF query = "ok" /\ stored = "worker"
               THEN /\ sessions' = Append(sessions, StoredRoom)
                    /\ rooms' = (StoredRoom :> (Len(sessions) + 1)) @@ rooms
               ELSE UNCHANGED <<rooms, sessions>>
    /\ UNCHANGED <<room_sinks, premeeting_sinks, hb_errors, task, delivered, reply>>

\* Mutant: a handler that waits blocks the thread, so the loop cannot run an
\* iteration of heartbeat_loop while a pair operation is suspended.
HeartBeat_BlockedByWaits(raises) ==
    /\ lifespan = "serving"
    /\ heartbeat_task = "running"
    /\ sdk = "sdk"
    /\ \A t \in Tasks : task[t].pc \notin {"wait_pair", "wait_conn"}
    /\ hb_errors' = IF raises THEN hb_errors + 1 ELSE hb_errors
    /\ heartbeat_task' = IF raises THEN "finished" ELSE heartbeat_task
    /\ UNCHANGED <<lifespan, sdk, rooms, room_sinks, premeeting_sinks, sessions,
                   driver_calls, task, delivered, reply>>

\* One iteration of heartbeat_loop: HeartBeat() returns, or raises and the
\* loop logs the error and breaks.
HeartBeat(raises) ==
    /\ lifespan = "serving"
    /\ heartbeat_task = "running"
    /\ sdk = "sdk"
    /\ hb_errors' = IF raises THEN hb_errors + 1 ELSE hb_errors
    /\ heartbeat_task' = IF raises THEN "finished" ELSE heartbeat_task
    /\ UNCHANGED <<lifespan, sdk, rooms, room_sinks, premeeting_sinks, sessions,
                   driver_calls, task, delivered, reply>>

\* Mutant: stop_heartbeat that returns without cancelling the task.
StopHeartbeat_NoCancel ==
    /\ lifespan = "serving"
    /\ lifespan' = "stopping"
    /\ UNCHANGED <<sdk, rooms, room_sinks, premeeting_sinks, heartbeat_task,
                   hb_errors, sessions, driver_calls, task, delivered, reply>>

\* lifespan() shutdown, first part: stop_heartbeat() cancels a running
\* heartbeat task and awaits it.
StopHeartbeat ==
    /\ lifespan = "serving"
    /\ lifespan' = "stopping"
    /\ heartbeat_task' = IF heartbeat_task = "running" THEN "cancelled"
                         ELSE heartbeat_task
    /\ UNCHANGED <<sdk, rooms, room_sinks, premeeting_sinks, hb_errors, sessions,
                   driver_calls, task, delivered, reply>>

\* Mutant: shutdown that also empties the registry.
Shutdown_ClearsRooms ==
    /\ lifespan = "stopping"
    /\ lifespan' = "stopped"
    /\ sdk' = "None"
    /\ rooms' = <<>>
    /\ UNCHANGED <<room_sinks, premeeting_sinks, heartbeat_task, hb_errors,
                   sessions, driver_calls, task, delivered, reply>>

\* lifespan() shutdown, second part: RoomManager.shutdown() drops the SDK
\* reference; DestroyInstance is not called and self.rooms is left as it is.
Shutdown ==
    /\ lifespan = "stopping"
    /\ lifespan' = "stopped"
    /\ sdk' = "None"
    /\ UNCHANGED <<rooms, room_sinks, premeeting_sinks, heartbeat_task, hb_errors,
                   sessions, driver_calls, task, delivered, reply>>

\* GET /health: the body the handler returns in the current state.
health ==
    [status |-> "healthy",
     sdk_initialized |-> sdk # "None",
     active_rooms |-> Cardinality(DOMAIN rooms)]

\* The driver makes progress, and so invokes sinks, only inside HeartBeat().
DriverDelivers ==
    /\ lifespan = "serving"
    /\ heartbeat_task = "running"
    /\ sdk = "sdk"
    /\ delivered < MaxCallbacks

\* ------------------------------------------------------------ the registry
\* Mutant: create_room_service without its lookup of an existing service.
create_room_service_NoLookup(room_id, reg_room, reg_pre) ==
    LET room_service == Len(sessions) + 1 IN
    [rooms |-> (room_id :> room_service) @@ rooms,
     room_sinks |-> IF reg_room = ZRCSDKERR_SUCCESS
                    THEN (room_id :> NewRoomSink) @@ room_sinks
                    ELSE room_sinks,
     premeeting_sinks |-> IF reg_pre = ZRCSDKERR_SUCCESS
                          THEN (room_id :> NewPreMeetingSink) @@ premeeting_sinks
                          ELSE premeeting_sinks,
     sessions |-> Append(sessions, room_id),
     calls |-> driver_calls \cup {<<"CreateZoomRoomsService", room_id>>,
                                  <<"RegisterSink", room_id>>},
     ret |-> room_service]

\* RoomManager.create_room_service(room_id): the registry after the call and
\* the service it returns.  reg_room and reg_pre are the results of the two
\* RegisterSink calls.
create_room_service(room_id, reg_room, reg_pre) ==
    IF room_id \in DOMAIN rooms
    THEN [rooms |-> rooms, room_sinks |-> room_sinks,
          premeeting_sinks |-> premeeting_sinks, sessions |-> sessions,
          calls |-> driver_calls, ret |-> rooms[room_id]]
    ELSE LET room_service == Len(sessions) + 1 IN
         [rooms |-> (room_id :> room_service) @@ rooms,
          room_sinks |-> IF reg_room = ZRCSDKERR_SUCCESS
                         THEN (room_id :> NewRoomSink) @@ room_sinks
                         ELSE room_sinks,
          premeeting_sinks |-> IF reg_pre = ZRCSDKERR_SUCCESS
                               THEN (room_id :> NewPreMeetingSink) @@ premeeting_sinks
                               ELSE premeeting_sinks,
          sessions |-> Append(sessions, room_id),
          calls |-> driver_calls \cup {<<"CreateZoomRoomsService", room_id>>,
                                       <<"RegisterSink", room_id>>},
          ret |-> room_service]

\* RoomManager.create_room_service(room_id) for a room the registry does not
\* hold, when a RegisterSink call raises: at is the registration that raised
\* ("room" or "premeeting"), reg_room the result of the first one when the
\* second raised.  The driver has created the session; the assignment to
\* self.rooms at the end of the method is not reached.
create_room_service_raises(room_id, at, reg_room) ==
    [rooms |-> rooms,
     room_sinks |-> IF at = "premeeting" /\ reg_room = ZRCSDKERR_SUCCESS
                    THEN (room_id :> NewRoomSink) @@ room_sinks
                    ELSE room_sinks,
     premeeting_sinks |-> premeeting_sinks,
     sessions |-> Append(sessions, room_id),
     calls |-> driver_calls \cup {<<"CreateZoomRoomsService", room_id>>,
                                  <<"RegisterSink", room_id>>}]

\* ---------------------------------------------------------------- pair_room
\* Mutant: pair_room ignores the result of PairRoomWithActivationCode.
PairCallFailed_Ignored(result) == FALSE

\* result != zrc_sdk.ZRCSDKERR_SUCCESS
PairCallFailed(result) == result # ZRCSDKERR_SUCCESS

\* room_sink.pair_result != 0
PairResultFailed(pair_result) == pair_result # Some(0)

\* Mutant: pair_room yields to the event loop after the driver call and
\* starts the pairing-result wait in a later step of its own.
PairRoom_Yields(t, room_id, reg_room, reg_pre, result) ==
    /\ lifespan = "serving"
    /\ \/ /\ task[t].pc = "idle"
          /\ \A u \in Tasks : u < t => task[u].pc # "idle"
          /\ reg_room = ZRCSDKERR_SUCCESS
          /\ reg_pre = ZRCSDKERR_SUCCESS
          /\ result = ZRCSDKERR_SUCCESS
          /\ LET c == create_room_service(room_id, reg_room, reg_pre) IN
             /\ room_id \in DOMAIN c.room_sinks
             /\ room_id \in DOMAIN c.premeeting_sinks
             /\ rooms' = c.rooms
             /\ sessions' = c.sessions
             /\ room_sinks' = [c.room_sinks EXCEPT ![room_id] = ClearPairEvent(@)]
             /\ premeeting_sinks' = [c.premeeting_sinks EXCEPT
                                        ![room_id] = ClearConnectedEvent(@)]
             /\ driver_calls' = c.calls \cup
                                    {<<"PairRoomWithActivationCode", room_id>>}
             /\ task' = [task EXCEPT ![t] =
                            [@ EXCEPT !.room_id = room_id,
                                      !.room_service = c.ret,
                                      !.call_result = Some(result),
                                      !.pc = "called"]]
       \/ /\ task[t].pc = "called"
          /\ task[t].room_id = room_id
          /\ task' = [task EXCEPT ![t] =
                         [@ EXCEPT !.timeout = PAIR_EVENT_TIMEOUT,
                                   !.pc = WaitOn(room_sinks[room_id].pair_event,
                                                 "pair")]]
          /\ UNCHANGED <<rooms, sessions, room_sinks, premeeting_sinks,
                         driver_calls>>
    /\ UNCHANGED <<lifespan, sdk, heartbeat_task, hb_errors, delivered, reply>>

\* pair_room from its entry to its first suspension: create or get the
\* service, look the sinks up, reset both events, call the driver, and either
\* return or start waiting for the pairing result.
PairRoom(t, room_id, reg_room, reg_pre, result) ==
    /\ lifespan = "serving"
    /\ task[t].pc = "idle"
    /\ \A u \in Tasks : u < t => task[u].pc # "idle"
    /\ LET c == create_room_service(room_id, reg_room, reg_pre)
           begun == [task[t] EXCEPT
                        !.room_id = room_id,
                        !.room_service = c.ret,
                        !.overlap = \E u \in Tasks :
                                       InFlight(u) /\ task[u].room_id = room_id]
       IN
       /\ rooms' = c.rooms
       /\ sessions' = c.sessions
       /\ IF room_id \notin DOMAIN c.room_sinks
             \/ room_id \notin DOMAIN c.premeeting_sinks
          THEN /\ room_sinks' = c.room_sinks
               /\ premeeting_sinks' = c.premeeting_sinks
               /\ driver_calls' = c.calls
               /\ task' = [task EXCEPT ![t] =
                              Finish(begun, Http500("Failed to register callbacks"))]
          ELSE /\ room_sinks' = [c.room_sinks EXCEPT
                                    ![room_id] = ClearPairEvent(@)]
               /\ premeeting_sinks' = [c.premeeting_sinks EXCEPT
                                          ![room_id] = ClearConnectedEvent(@)]
               /\ driver_calls' = c.calls \cup
                                      {<<"PairRoomWithActivationCode", room_id>>}
               /\ LET called == [begun EXCEPT !.call_result = Some(result)] IN
                  task' = [task EXCEPT ![t] =
                      IF PairCallFailed(result)
                      THEN Finish(called, FailedToInitiate(result))
                      ELSE [called EXCEPT
                              !.timeout = PAIR_EVENT_TIMEOUT,
                              !.pc = WaitOn(room_sinks'[room_id].pair_event, "pair")]]
    /\ UNCHANGED <<lifespan, sdk, heartbeat_task, hb_errors, delivered, reply>>

\* pair_room when create_room_service raises: the handler's except clause
\* answers 500 with the text of the exception.
PairRoomRegisterRaises(t, room_id, at, reg_room) ==
    /\ lifespan = "serving"
    /\ task[t].pc = "idle"
    /\ \A u \in Tasks : u < t => task[u].pc # "idle"
    /\ room_id \notin DOMAIN rooms
    /\ LET c == create_room_service_raises(room_id, at, reg_room) IN
       /\ rooms' = c.rooms
       /\ sessions' = c.sessions
       /\ room_sinks' = c.room_sinks
       /\ premeeting_sinks' = c.premeeting_sinks
       /\ driver_calls' = c.calls
       /\ task' = [task EXCEPT ![t] =
              Finish([@ EXCEPT !.room_id = room_id], Http500("str(e)"))]
    /\ UNCHANGED <<lifespan, sdk, heartbeat_task, hb_errors, delivered, reply>>

\* Mutant: one ZoomRoomsServiceSink is shared by all rooms, so a pairing result
\* reaches the sink state and the waiters of every room.
OnPairRoomResult_SharedSink(room_id, result) ==
    /\ DriverDelivers
    /\ room_id \in DOMAIN room_sinks
    /\ room_sinks' = [r \in DOMAIN room_sinks |->
                         SinkOnPairRoomResult(room_sinks[r], result)]
    /\ task' = [t \in Tasks |->
                   IF InFlight(t)
                   THEN LET seen == SeesPairResult(task[t], result) IN
                        IF seen.pc = "wait_pair"
                        THEN [seen EXCEPT !.pc = "woken_pair"]
                        ELSE seen
                   ELSE task[t]]
    /\ delivered' = delivered + 1
    /\ UNCHANGED <<lifespan, sdk, rooms, premeeting_sinks, heartbeat_task,
                   hb_errors, sessions, driver_calls, reply>>

\* The driver invokes ZoomRoomsServiceSink.OnPairRoomResult(result) on the
\* sink of room_id; Event.set() resolves every waiter of pair_event.
OnPairRoomResult(room_id, result) ==
    /\ DriverDelivers
    /\ room_id \in DOMAIN room_sinks
    /\ room_sinks' = [room_sinks EXCEPT
                         ![room_id] = SinkOnPairRoomResult(@, result)]
    /\ task' = [t \in Tasks |->
                   IF InFlight(t) /\ task[t].room_id = room_id
                   THEN LET seen == SeesPairResult(task[t], result) IN
                        IF seen.pc = "wait_pair" /\ room_sinks'[room_id].pair_event
                        THEN [seen EXCEPT !.pc = "woken_pair"]
                        ELSE seen
                   ELSE task[t]]
    /\ delivered' = delivered + 1
    /\ UNCHANGED <<lifespan, sdk, rooms, premeeting_sinks, heartbeat_task,
                   hb_errors, sessions, driver_calls, reply>>

\* The driver invokes PreMeetingServiceSink.OnZRConnectionStateChanged(state);
\* only ConnectionStateConnected sets connected_event and resolves its waiters.
OnZRConnectionStateChanged(room_id, state) ==
    /\ DriverDelivers
    /\ room_id \in DOMAIN premeeting_sinks
    /\ premeeting_sinks' = [premeeting_sinks EXCEPT
                               ![room_id] = SinkOnZRConnectionStateChanged(@, state)]
    /\ task' = [t \in Tasks |->
                   IF InFlight(t) /\ task[t].room_id = room_id
                   THEN LET seen == SeesConnectionState(task[t], state) IN
                        IF seen.pc = "wait_conn"
                           /\ premeeting_sinks'[room_id].connected_event
                        THEN [seen EXCEPT !.pc = "woken_conn"]
                        ELSE seen
                   ELSE task[t]]
    /\ delivered' = delivered + 1
    /\ UNCHANGED <<lifespan, sdk, rooms, room_sinks, heartbeat_task,
                   hb_errors, sessions, driver_calls, reply>>

\* One HeartBeat() call in which the driver invokes OnZRConnectionStateChanged
\* twice, with state and then with next: the loop runs no handler between the
\* two callbacks.  The call begins within the driver's budget of callbacks.
OnZRConnectionStateChangedTwice(room_id, state, next) ==
    /\ DriverDelivers
    /\ room_id \in DOMAIN premeeting_sinks
    /\ premeeting_sinks' =
          [premeeting_sinks EXCEPT
              ![room_id] = SinkOnZRConnectionStateChanged(
                               SinkOnZRConnectionStateChanged(@, state), next)]
    /\ task' = [t \in Tasks |->
                   IF InFlight(t) /\ task[t].room_id = room_id
                   THEN LET seen == SeesConnectionState(
                                        SeesConnectionState(task[t], state), next)
                        IN
                        IF seen.pc = "wait_conn"
                           /\ premeeting_sinks'[room_id].connected_event
                        THEN [seen EXCEPT !.pc = "woken_conn"]
                        ELSE seen
                   ELSE task[t]]
    /\ delivered' = delivered + 2
    /\ UNCHANGED <<lifespan, sdk, rooms, room_sinks, heartbeat_task,
                   hb_errors, sessions, driver_calls, reply>>

\* Mutant: pair_room awaits pair_event.wait() without wait_for, so no deadline
\* ever ends the wait.
PairResultDeadline_Never(t) ==
    /\ task[t].pc = "wait_pair"
    /\ FALSE
    /\ UNCHANGED vars

\* Mutant: the TimeoutError of the pairing-result wait is swallowed and the
\* handler goes on to the connection wait.
PairResultDeadline_FallsThrough(t) ==
    /\ task[t].pc = "wait_pair"
    /\ task' = [task EXCEPT ![t].pc =
           WaitOn(premeeting_sinks[task[t].room_id].connected_event, "conn")]
    /\ UNCHANGED <<lifespan, sdk, rooms, room_sinks, premeeting_sinks,
                   heartbeat_task, hb_errors, sessions, driver_calls, delivered, reply>>

\* wait_for(pair_event.wait(), 30.0) raises TimeoutError: the waiter was
\* still unresolved when the deadline passed.
PairResultDeadline(t) ==
    /\ task[t].pc = "wait_pair"
    /\ task' = [task EXCEPT ![t] = Finish(@, PairResultTimeout)]
    /\ UNCHANGED <<lifespan, sdk, rooms, room_sinks, premeeting_sinks,
                   heartbeat_task, hb_errors, sessions, driver_calls, delivered, reply>>

\* pair_room resumes after pair_event.wait(): it reads room_sink.pair_result,
\* returns the failure, or starts waiting for the connection.
ResumeAfterPairResult(t) ==
    /\ task[t].pc = "woken_pair"
    /\ LET room_id == task[t].room_id
           pair_result == room_sinks[room_id].pair_result
           read == [task[t] EXCEPT !.pair_result = pair_result]
       IN task' = [task EXCEPT ![t] =
              IF PairResultFailed(pair_result)
              THEN Finish(read, PairingFailed(pair_result[1]))
              ELSE [read EXCEPT
                      !.timeout = CONNECTED_EVENT_TIMEOUT,
                      !.pc = WaitOn(premeeting_sinks[room_id].connected_event, "conn")]]
    /\ UNCHANGED <<lifespan, sdk, rooms, room_sinks, premeeting_sinks,
                   heartbeat_task, hb_errors, sessions, driver_calls, delivered, reply>>

\* wait_for(connected_event.wait(), 60.0) raises TimeoutError.
ConnectionDeadline(t) ==
    /\ task[t].pc = "wait_conn"
    /\ task' = [task EXCEPT ![t] = Finish(@, ConnectionTimeout)]
    /\ UNCHANGED <<lifespan, sdk, rooms, room_sinks, premeeting_sinks,
                   heartbeat_task, hb_errors, sessions, driver_calls, delivered, reply>>

\* pair_room resumes after connected_event.wait() and returns success with
\* the connection state the sink holds at that moment.
ResumeAfterConnected(t) ==
    /\ task[t].pc = "woken_conn"
    /\ task' = [task EXCEPT ![t] =
           Finish(@, FullyConnected(
                         premeeting_sinks[task[t].room_id].connection_state))]
    /\ UNCHANGED <<lifespan, sdk, rooms, room_sinks, premeeting_sinks,
                   heartbeat_task, hb_errors, sessions, driver_calls, delivered, reply>>

\* Mutant: the handler catches the cancellation like a timeout and answers.
Cancel_AsTimeout(t) ==
    /\ task[t].pc \in {"wait_pair", "wait_conn"}
    /\ task' = [task EXCEPT ![t] = Finish(@, PairResultTimeout)]
    /\ UNCHANGED <<lifespan, sdk, rooms, room_sinks, premeeting_sinks,
                   heartbeat_task, hb_errors, sessions, driver_calls, delivered,
                   reply>>

\* The task of a pair_room request is cancelled while suspended in a wait:
\* wait_for cancels Event.wait(), which removes its waiter from the event, and
\* the CancelledError leaves pair_room (it is no Exception, so neither except
\* clause catches it).  No response is returned.
Cancel(t) ==
    /\ task[t].pc \in {"wait_pair", "wait_conn"}
    /\ task' = [task EXCEPT ![t].pc = "cancelled"]
    /\ UNCHANGED <<lifespan, sdk, rooms, room_sinks, premeeting_sinks,
                   heartbeat_task, hb_errors, sessions, driver_calls, delivered,
                   reply>>

\* ------------------------------------------- the handlers that never await
\* Mutant: the lookup falls back to a default handle for an unknown room id.
get_room_service_Default(room_id) ==
    IF room_id \in DOMAIN rooms THEN Some(rooms[room_id]) ELSE Some(0)

\* RoomManager.get_room_service(room_id): self.rooms.get(room_id)
get_room_service(room_id) ==
    IF room_id \in DOMAIN rooms THEN Some(rooms[room_id]) ELSE None

\* Mutant: success is reported whatever the driver returned.
ResultBody_AlwaysSuccess(room_id, result) ==
    [room_id |-> room_id, result |-> result, success |-> TRUE]

\* The dict unpair_room, start_instant_meeting, join_meeting and exit_meeting
\* return: room_id, int(result) and result == ZRCSDKERR_SUCCESS.
ResultBody(room_id, result) ==
    [room_id |-> room_id, result |-> result,
     success |-> (result = ZRCSDKERR_SUCCESS)]

\* The common shape of those four handlers: 404 for an unknown room, else one
\* driver call on the room's service; an exception of the call becomes a 500.
DriverCallHandler(op, call, room_id, raises, result) ==
    /\ lifespan = "serving"
    /\ reply' =
          IF get_room_service(room_id) = None
          THEN [op |-> op, room_id |-> room_id,
                response |-> HttpError(404, "Room not found"), calls |-> {}]
          ELSE [op |-> op, room_id |-> room_id,
                response |-> IF raises THEN HttpError(500, "str(e)")
                             ELSE Ok(ResultBody(room_id, result)),
                calls |-> {<<call, room_id>>}]
    /\ UNCHANGED <<lifespan, sdk, rooms, room_sinks, premeeting_sinks,
                   heartbeat_task, hb_errors, sessions, driver_calls, task,
                   delivered>>

UnpairRoom(room_id, raises, result) ==
    DriverCallHandler("unpair_room", "UnpairRoom", room_id, raises, result)

StartInstantMeeting(room_id, raises, result) ==
    DriverCallHandler("start_instant_meeting", "StartInstantMeeting",
                      room_id, raises, result)

JoinMeeting(room_id, raises, result) ==
    DriverCallHandler("join_meeting", "JoinMeeting", room_id, raises, result)

ExitMeeting(room_id, raises, result) ==
    DriverCallHandler("exit_meeting", "ExitMeeting", room_id, raises, result)

\* get_room_status: GetConnectionState returns (result, state); a result other
\* than success raises an HTTPException that the handler's own except clause
\* turns into a 500, as it does an exception of the call.
GetRoomStatus(room_id, raises, result, state) ==
    /\ lifespan = "serving"
    /\ reply' =
          IF get_room_service(room_id) = None
          THEN [op |-> "get_room_status", room_id |-> room_id,
                response |-> HttpError(404, "Room not found"), calls |-> {}]
          ELSE [op |-> "get_room_status", room_id |-> room_id,
                response |->
                    IF raises THEN HttpError(500, "str(e)")
                    ELSE IF result # ZRCSDKERR_SUCCESS
                    THEN HttpError(500, "Failed to get connection state")
                    ELSE Ok([room_id |-> room_id, connection_state |-> state,
                             connected |-> (state = ConnectionStateConnected)]),
                calls |-> {<<"GetConnectionState", room_id>>}]
    /\ UNCHANGED <<lifespan, sdk, rooms, room_sinks, premeeting_sinks,
                   heartbeat_task, hb_errors, sessions, driver_calls, task,
                   delivered>>

\* ------------------------------------------------------------ list_rooms
\* str(state) of a pybind11 enum value: the enum's name, a dot, the member.
StateStr(state) == "ConnectionState." \o state

\* What the driver does for one room during a listing: GetPreMeetingService
\* or GetConnectionState raises, or GetConnectionState returns (result, state).
\* A call that raises returns nothing and the state that comes with an error
\* code is not read: those fields are held at one value.
ListOutcomes ==
    {o \in [raises : BOOLEAN, result : DriverResults, state : ConnectionStates] :
        /\ o.raises => o.result = ZRCSDKERR_WRONG_USAGE
        /\ o.result = ZRCSDKERR_WRONG_USAGE => o.state = ConnectionStateDisconnected}

\* room_manager.rooms.keys(): a dict iterates in insertion order, and the
\* handles of the model are numbered in the order the driver made them.
RoomKeys ==
    CHOOSE keys \in [1..Cardinality(DOMAIN rooms) -> DOMAIN rooms] :
        \A i, j \in DOMAIN keys : i < j => rooms[keys[i]] < rooms[keys[j]]

\* The RoomStatus list_rooms appends for one room.
RoomStatus(room_id, outcome) ==
    [room_id |-> room_id, paired |-> TRUE,
     connection_state |->
         IF outcome.raises THEN "unknown"
         ELSE IF outcome.result = ZRCSDKERR_SUCCESS THEN StateStr(outcome.state)
         ELSE "error"]

\* Mutant: list_rooms without the try around one room's queries, so that an
\* exception of the driver ends the request with a 500.
list_rooms_NoTry(outcome) ==
    IF \E room_id \in DOMAIN rooms : outcome[room_id].raises
    THEN HttpError(500, "Internal Server Error")
    ELSE Ok([rooms |-> [i \in DOMAIN RoomKeys |->
                          RoomStatus(RoomKeys[i], outcome[RoomKeys[i]])]])

\* list_rooms: the response for the registry as it is, outcome[room_id] being
\* what the driver does when asked about room_id.
list_rooms(outcome) ==
    Ok([rooms |-> [i \in DOMAIN RoomKeys |->
                     RoomStatus(RoomKeys[i], outcome[RoomKeys[i]])]])

\* GET /api/rooms.  The handler has no await: it is one step.
ListRooms(outcome) ==
    /\ lifespan = "serving"
    /\ reply' = [op |-> "list_rooms", room_id |-> "",
                 response |-> list_rooms(outcome),
                 calls |-> {<<"GetPreMeetingService", room_id>> :
                               room_id \in DOMAIN rooms}]
    /\ UNCHANGED <<lifespan, sdk, rooms, room_sinks, premeeting_sinks,
                   heartbeat_task, hb_errors, sessions, driver_calls, task,
                   delivered>>

\* ------------------------------------------------- mute audio / mute video
\* The service file of src/ defines no mute endpoint; example_client.py calls
\* POST /api/rooms/{room_id}/audio/mute and /video/mute.  The two handlers are
\* modelled on the specification: one synchronous driver call, the outcome is
\* its result code, success and a message; an unknown room id is not found.

\* Mutant: the outcome of a mute reports success whatever the driver returned.
MuteOutcome_AlwaysSuccess(result) ==
    [result |-> result, success |-> TRUE, message |-> "mute"]

MuteOutcome(result) ==
    [result |-> result, success |-> (result = ZRCSDKERR_SUCCESS),
     message |-> IF result = ZRCSDKERR_SUCCESS THEN "mute" ELSE "mute failed"]

MuteHandler(op, call, room_id, mute, result) ==
    /\ lifespan = "serving"
    /\ reply' =
          IF get_room_service(room_id) = None
          THEN [op |-> op, room_id |-> room_id,
                response |-> HttpError(404, "Room not found"), calls |-> {}]
          ELSE [op |-> op, room_id |-> room_id,
                response |-> Ok(MuteOutcome(result)),
                calls |-> {<<call \o (IF mute THEN "(true)" ELSE "(false)"),
                             room_id>>}]
    /\ UNCHANGED <<lifespan, sdk, rooms, room_sinks, premeeting_sinks,
                   heartbeat_task, hb_errors, sessions, driver_calls, task,
                   delivered>>

MuteAudio(room_id, mute, result) ==
    MuteHandler("mute_audio", "MuteAudio", room_id, mute, result)

MuteVideo(room_id, mute, result) ==
    MuteHandler("mute_video", "MuteVideo", room_id, mute, result)

\* ------------------------------------------------------------------- Next
Next ==
    \/ \E query \in {"ok", "error", "raise"}, stored \in {"none", "worker", "noworker"} :
          Startup(query, stored)
    \/ \E raises \in BOOLEAN : HeartBeat(raises)
    \/ \E t \in Tasks, room_id \in RoomIds, reg_room \in DriverResults,
          reg_pre \in DriverResults, result \in DriverResults :
          PairRoom(t, room_id, reg_room, reg_pre, result)
    \/ \E room_id \in RoomIds, result \in PairCodes : OnPairRoomResult(room_id, result)
    \/ \E room_id \in RoomIds, state \in ConnectionStates :
          OnZRConnectionStateChanged(room_id, state)
    \/ \E t \in Tasks : PairResultDeadline(t)
    \/ \E t \in Tasks : ResumeAfterPairResult(t)
    \/ \E t \in Tasks : ConnectionDeadline(t)
    \/ \E t \in Tasks : ResumeAfterConnected(t)

Spec == Init /\ [][Next]_vars

\* The service with one room and no room stored by the driver, every
\* RegisterSink succeeding, and the driver reporting any code of TableCodes as
\* the pairing result.
NextCodes ==
    \/ Startup("ok", "none")
    \/ \E raises \in BOOLEAN : HeartBeat(raises)
    \/ \E t \in Tasks, result \in DriverResults :
          PairRoom(t, "roomA", ZRCSDKERR_SUCCESS, ZRCSDKERR_SUCCESS, result)
    \/ \E result \in TableCodes : OnPairRoomResult("roomA", result)
    \/ \E state \in ConnectionStates : OnZRConnectionStateChanged("roomA", state)
    \/ \E t \in Tasks : PairResultDeadline(t)
    \/ \E t \in Tasks : ResumeAfterPairResult(t)
    \/ \E t \in Tasks : ConnectionDeadline(t)
    \/ \E t \in Tasks : ResumeAfterConnected(t)

SpecCodes == Init /\ [][NextCodes]_vars

\* The event loop runs every timer that is due and every coroutine whose
\* future is resolved: a deadline that stays pending fires, a woken handler
\* resumes.
LoopFairness ==
    \A t \in Tasks :
        /\ WF_vars(PairResultDeadline(t))
        /\ WF_vars(ResumeAfterPairResult(t))
        /\ WF_vars(ConnectionDeadline(t))
        /\ WF_vars(ResumeAfterConnected(t))

\* The service with one room, as NextCodes, the driver reporting the pairing
\* results of PairCodes.
NextOneRoom ==
    \/ Startup("ok", "none")
    \/ \E raises \in BOOLEAN : HeartBeat(raises)
    \/ \E t \in Tasks, result \in DriverResults :
          PairRoom(t, "roomA", ZRCSDKERR_SUCCESS, ZRCSDKERR_SUCCESS, result)
    \/ \E result \in PairCodes : OnPairRoomResult("roomA", result)
    \/ \E state \in ConnectionStates : OnZRConnectionStateChanged("roomA", state)
    \/ \E t \in Tasks : PairResultDeadline(t)
    \/ \E t \in Tasks : ResumeAfterPairResult(t)
    \/ \E t \in Tasks : ConnectionDeadline(t)
    \/ \E t \in Tasks : ResumeAfterConnected(t)

FairSpec == Init /\ [][NextOneRoom]_vars /\ LoopFairness

\* NextOneRoom with requests that are cancelled while they wait.
NextCancel ==
    \/ NextOneRoom
    \/ \E t \in Tasks : Cancel(t)

SpecCancel == Init /\ [][NextCancel]_vars

\* The service as far as the registry goes: startup, pair requests for either
\* room up to their pairing-result wait and its deadline, a RegisterSink call
\* that raises, unpair_room, and the shutdown of lifespan().  The driver
\* delivers no callback.
NextRegistry ==
    \/ \E query \in {"ok", "error", "raise"}, stored \in {"none", "worker", "noworker"} :
          Startup(query, stored)
    \/ \E t \in Tasks, room_id \in RoomIds, reg_room \in DriverResults,
          reg_pre \in DriverResults, result \in DriverResults :
          PairRoom(t, room_id, reg_room, reg_pre, result)
    \/ \E t \in Tasks, room_id \in RoomIds, at \in {"room", "premeeting"},
          reg_room \in DriverResults :
          PairRoomRegisterRaises(t, room_id, at, reg_room)
    \/ \E t \in Tasks : PairResultDeadline(t)
    \/ \E room_id \in RoomIds, raises \in BOOLEAN, result \in DriverResults :
          UnpairRoom(room_id, raises, result)
    \/ StopHeartbeat
    \/ Shutdown

SpecRegistry == Init /\ [][NextRegistry]_vars

\* The service with one room and one pair request, the driver delivering one
\* callback or two connection state changes in a HeartBeat() call.
NextBurst ==
    \/ Startup("ok", "none")
    \/ \E raises \in BOOLEAN : HeartBeat(raises)
    \/ \E result \in DriverResults :
          PairRoom(1, "roomA", ZRCSDKERR_SUCCESS, ZRCSDKERR_SUCCESS, result)
    \/ \E result \in PairCodes : OnPairRoomResult("roomA", result)
    \/ \E state \in ConnectionStates : OnZRConnectionStateChanged("roomA", state)
    \/ \E state \in ConnectionStates, next \in ConnectionStates :
          OnZRConnectionStateChangedTwice("roomA", state, next)
    \/ PairResultDeadline(1)
    \/ ResumeAfterPairResult(1)
    \/ ConnectionDeadline(1)
    \/ ResumeAfterConnected(1)

SpecBurst == Init /\ [][NextBurst]_vars

\* The service from startup to shutdown, with one pair request for one room.
NextLifespan ==
    \/ \E query \in {"ok", "error", "raise"}, stored \in {"none", "worker", "noworker"} :
          Startup(query, stored)
    \/ \E raises \in BOOLEAN : HeartBeat(raises)
    \/ \E result \in DriverResults :
          PairRoom(1, "roomA", ZRCSDKERR_SUCCESS, ZRCSDKERR_SUCCESS, result)
    \/ \E result \in PairCodes : OnPairRoomResult("roomA", result)
    \/ \E state \in ConnectionStates : OnZRConnectionStateChanged("roomA", state)
    \/ PairResultDeadline(1)
    \/ ResumeAfterPairResult(1)
    \/ ConnectionDeadline(1)
    \/ ResumeAfterConnected(1)
    \/ StopHeartbeat
    \/ Shutdown

SpecLifespan == Init /\ [][NextLifespan]_vars

\* The service as list_rooms sees it: a room the driver may have stored, one
\* pair request, for either room, with the pairing result delivered or not,
\* unpair_room and list_rooms.  No connection state change is delivered.
NextList ==
    \/ \E stored \in {"none", "worker"} : Startup("ok", stored)
    \/ \E room_id \in RoomIds, result \in DriverResults :
          PairRoom(1, room_id, ZRCSDKERR_SUCCESS, ZRCSDKERR_SUCCESS, result)
    \/ \E room_id \in RoomIds, result \in PairCodes : OnPairRoomResult(room_id, result)
    \/ PairResultDeadline(1)
    \/ ResumeAfterPairResult(1)
    \/ ConnectionDeadline(1)
    \/ \E room_id \in RoomIds, result \in DriverResults :
          UnpairRoom(room_id, FALSE, result)
    \/ \E outcome \in [DOMAIN rooms -> ListOutcomes] : ListRooms(outcome)

SpecList == Init /\ [][NextList]_vars

\* The service with one pair request, for one room, a second room the driver
\* may have stored, and the handlers that never await called for either room.
NextOps ==
    \/ \E stored \in {"none", "worker"} : Startup("ok", stored)
    \/ \E raises \in BOOLEAN : HeartBeat(raises)
    \/ \E result \in DriverResults :
          PairRoom(1, "roomA", ZRCSDKERR_SUCCESS, ZRCSDKERR_SUCCESS, result)
    \/ \E result \in PairCodes : OnPairRoomResult("roomA", result)
    \/ \E state \in ConnectionStates : OnZRConnectionStateChanged("roomA", state)
    \/ \E t \in Tasks : PairResultDeadline(t)
    \/ \E t \in Tasks : ResumeAfterPairResult(t)
    \/ \E t \in Tasks : ConnectionDeadline(t)
    \/ \E t \in Tasks : ResumeAfterConnected(t)
    \/ \E room_id \in RoomIds, raises \in BOOLEAN, result \in DriverResults :
          UnpairRoom(room_id, raises, result)
    \/ \E room_id \in RoomIds, raises \in BOOLEAN, result \in DriverResults :
          StartInstantMeeting(room_id, raises, result)
    \/ \E room_id \in RoomIds, raises \in BOOLEAN, result \in DriverResults :
          JoinMeeting(room_id, raises, result)
    \/ \E room_id \in RoomIds, raises \in BOOLEAN, result \in DriverResults :
          ExitMeeting(room_id, raises, result)
    \/ \E room_id \in RoomIds, raises \in BOOLEAN, result \in DriverResults,
          state \in ConnectionStates :
          GetRoomStatus(room_id, raises, result, state)
    \/ \E room_id \in RoomIds, mute \in BOOLEAN, result \in DriverResults :
          MuteAudio(room_id, mute, result)
    \/ \E room_id \in RoomIds, mute \in BOOLEAN, result \in DriverResults :
          MuteVideo(room_id, mute, result)

SpecOps == Init /\ [][NextOps]_vars

\* ================================================================== claims
Started(t) == task[t].pc # "idle"
Done(t) == task[t].pc = "done"
CallSucceeded(t) == task[t].call_result = Some(ZRCSDKERR_SUCCESS)

\* C1: a pair request issued while another pair operation on the same room is
\* outstanding is rejected at once with a conflict (operation-in-progress)
\* error and starts no wait.
C1_SecondPairRejected ==
    \A t \in Tasks :
        task[t].overlap => Done(t) /\ task[t].response.kind = "conflict"

\* C2: a second pair request does not change the outcome of the first: an
\* operation during which a Connected callback was delivered to its room never
\* ends in the connection timeout (as it never does when no other request
\* resets the event).
C2_FirstUnaffected ==
    \A t \in Tasks :
        Done(t) /\ task[t].response = ConnectionTimeout
            => task[t].connected_in = {}

\* C3: after a HeartBeat() call has raised, the heartbeat loop is still running
\* and goes on issuing ticks.
C3_PumpSurvivesFailedTick ==
    hb_errors > 0 => heartbeat_task = "running"

C5_StaleCallbackDropped ==
    \A t \in Tasks :
        /\ (task[t].pc \in {"woken_pair", "wait_conn", "woken_conn"}
              \/ task[t].pair_result # None)
               => task[t].first_pair # None
        /\ (task[t].pc = "woken_conn" \/ task[t].response.success)
               => task[t].connected_in # {}

\* C5 witness: the sink holds a pairing result that no operation saw (it was
\* delivered while none was in flight on the room, after an earlier operation
\* timed out), and a later operation is blocked in its pairing-result wait.
C5_Witness ==
    \E t, u \in Tasks :
        /\ u < t
        /\ task[u].room_id = task[t].room_id
        /\ task[u].response = PairResultTimeout
        /\ task[u].first_pair = None
        /\ task[t].pc = "wait_pair"
        /\ task[t].first_pair = None
        /\ room_sinks[task[t].room_id].pair_result # None

\* C6: first writer wins: the pairing result an operation resolves with is the
\* code of the first OnPairRoomResult delivered while it waited.
C6_FirstWriterWins ==
    \A t \in Tasks :
        task[t].pair_result # None => task[t].pair_result = task[t].first_pair

\* C7: if the driver call succeeded, the pairing-result wait resolved with an
\* OnPairRoomResult(0) and a Connected state change was then delivered while
\* the operation was in its connection wait, the wait is resolved (the
\* operation cannot time out any more) and the operation returns the
\* fully-connected outcome: a normal response, result 0, success true.
C7_FullSuccess ==
    \A t \in Tasks :
        (CallSucceeded(t) /\ task[t].got_pair0 /\ "conn" \in task[t].connected_in)
            => \/ task[t].pc = "woken_conn"
               \/ /\ Done(t)
                  /\ task[t].response.kind = "json"
                  /\ task[t].response.result = 0
                  /\ task[t].response.success

\* C7 witness: an operation that saw OnPairRoomResult(0) and then, in its
\* connection wait, a Connected state change has returned.
C7_Witness ==
    \E t \in Tasks :
        /\ Done(t) /\ CallSucceeded(t)
        /\ task[t].first_pair = Some(0)
        /\ task[t].connected_in = {"conn"}

\* C8: if the driver call succeeded, the pairing-result wait resolved with code
\* 0 and no Connected state change was delivered to the room during the
\* operation, the operation returns the paired-but-not-connected outcome: a
\* normal response (not an error) with result 0, success false and its own
\* message.
C8_PartialSuccess ==
    \A t \in Tasks :
        (Done(t) /\ CallSucceeded(t) /\ task[t].got_pair0
           /\ task[t].pair_result = Some(0) /\ task[t].connected_in = {})
            => /\ task[t].response.kind = "json"
               /\ task[t].response.result = 0
               /\ ~task[t].response.success
               /\ task[t].response.message =
                     <<"Pairing succeeded but timeout waiting for connection. Room may connect later.">>

\* C8 witness: an operation whose pairing result was 0 has returned without a
\* Connected state change having been delivered.
C8_Witness ==
    \E t \in Tasks :
        /\ Done(t) /\ task[t].pair_result = Some(0)
        /\ task[t].connected_in = {}

\* C9: an operation returns success only if an OnPairRoomResult(0) and a
\* Connected state change were both delivered to its room during the operation
\* and the result it read was 0; its connection wait is resolved only if a
\* Connected state change was delivered, never by another state.
C9_SuccessOnlyIfBoth ==
    \A t \in Tasks :
        /\ task[t].response.success
              => /\ CallSucceeded(t)
                 /\ task[t].pair_result = Some(0)
                 /\ task[t].got_pair0
                 /\ task[t].connected_in # {}
        /\ task[t].pc = "woken_conn" => task[t].connected_in # {}

\* C9 witness: an operation has returned the fully-connected outcome.
C9_Witness ==
    \E t \in Tasks :
        Done(t) /\ task[t].response.success /\ task[t].response.kind = "json"

\* C10: when PairRoomWithActivationCode returns a code other than success the
\* operation has returned failure with that code and has never waited: it saw
\* no callback and read no pairing result.
C10_SyncFailureReturnsAtOnce ==
    \A t \in Tasks :
        (task[t].call_result # None /\ ~CallSucceeded(t))
            => /\ Done(t)
               /\ task[t].response = FailedToInitiate(task[t].call_result[1])
               /\ ~task[t].response.success
               /\ task[t].pair_result = None
               /\ task[t].first_pair = None
               /\ task[t].connected_in = {}

\* C10 witness: the driver call of a request has returned ZRCSDKERR_WRONG_USAGE.
C10_Witness ==
    \E t \in Tasks : task[t].call_result = Some(ZRCSDKERR_WRONG_USAGE)

\* C11: when PairRoomWithActivationCode succeeded and no OnPairRoomResult was
\* delivered to the room during the operation, the operation is still in its
\* pairing-result wait or has returned the pairing-result timeout (a normal
\* response with result -1, success false and the timeout message); it has
\* read no pairing result and has seen no part of the connection wait.
C11_PairResultTimeout ==
    \A t \in Tasks :
        (CallSucceeded(t) /\ task[t].first_pair = None)
            => /\ task[t].pc \in {"wait_pair", "done"}
               /\ task[t].pair_result = None
               /\ "conn" \notin task[t].connected_in
               /\ Done(t) => /\ task[t].response.kind = "json"
                             /\ task[t].response.result = PAIR_RESULT_TIMEOUT
                             /\ ~task[t].response.success
                             /\ task[t].response.message =
                                   <<"Timeout waiting for pairing result">>

\* C11 witness: an operation whose driver call succeeded has returned without
\* an OnPairRoomResult having been delivered to its room.
C11_Witness ==
    \E t \in Tasks :
        Done(t) /\ CallSucceeded(t) /\ task[t].first_pair = None

\* The message the code table gives for a non-zero pairing result n.
C12_TableMessage(n) ==
    IF n = 30055016 THEN <<"Invalid activation code">>
    ELSE IF n = 100 THEN <<"Failed to connect to room">>
    ELSE IF n = 101 THEN <<"Room cannot verify connection">>
    ELSE IF n = 102 THEN <<"Timeout waiting for room's verify response">>
    ELSE <<"Pairing failed with code", n>>

\* C12 (under SpecCodes): an operation that read a non-zero pairing result N
\* has returned a normal response with result N, success false and the message
\* of the code table (the generic message for an unmapped N), and was never in
\* the connection wait.
C12_PairingFailedEchoesCode ==
    \A t \in Tasks :
        (task[t].pair_result # None /\ task[t].pair_result # Some(0))
            => /\ Done(t)
               /\ task[t].response.kind = "json"
               /\ task[t].response.result = task[t].pair_result[1]
               /\ ~task[t].response.success
               /\ task[t].response.message =
                     C12_TableMessage(task[t].pair_result[1])
               /\ "conn" \notin task[t].connected_in

\* C12 witness: one operation has returned after reading a code of the table,
\* another after reading an unmapped code.
C12_Witness ==
    \E t, u \in Tasks :
        /\ Done(t) /\ task[t].pair_result = Some(102)
        /\ Done(u) /\ task[u].pair_result = Some(UnmappedCode)

\* Which of the three outcomes a response of pair_room is, told by the return
\* statement that built it (its message).
C13_Outcome(resp) ==
    IF resp.message = <<"Room successfully paired and connected">>
    THEN "fully_connected"
    ELSE IF resp.message =
            <<"Pairing succeeded but timeout waiting for connection. Room may connect later.">>
    THEN "paired_not_connected"
    ELSE "failed"

\* C13 (under SpecCodes): the (result, success) pair of a pair_room response
\* tells its outcome: fully connected is (0, true), paired but not yet
\* connected is (0, false), and no failed outcome carries either pair.
C13_ThreeWayOutcome ==
    \A t \in Tasks :
        (Done(t) /\ task[t].response.kind = "json")
            => LET resp == task[t].response
                   pair == <<resp.result, resp.success>>
               IN /\ C13_Outcome(resp) = "fully_connected" => pair = <<0, TRUE>>
                  /\ C13_Outcome(resp) = "paired_not_connected" => pair = <<0, FALSE>>
                  /\ C13_Outcome(resp) = "failed"
                        => pair # <<0, TRUE>> /\ pair # <<0, FALSE>>

\* C13 witness: one operation has returned a failed outcome with success
\* false, another the paired-but-not-connected outcome.
C13_Witness ==
    \E t, u \in Tasks :
        /\ Done(t) /\ task[t].response.kind = "json"
        /\ C13_Outcome(task[t].response) = "failed"
        /\ Done(u) /\ C13_Outcome(task[u].response) = "paired_not_connected"

\* C14 (under FairSpec): every wait of a pair operation carries its deadline,
\* 30 s for the pairing result and 60 s for the connection, the latter started
\* when the pairing result was read; and every operation that is suspended in
\* or resuming from a wait eventually returns.
C14_EveryWaitEnds ==
    /\ [](\A t \in Tasks :
            /\ task[t].pc \in {"wait_pair", "woken_pair"}
                  => task[t].timeout = 30 /\ task[t].pair_result = None
            /\ task[t].pc \in {"wait_conn", "woken_conn"}
                  => task[t].timeout = 60 /\ task[t].pair_result = Some(0))
    /\ \A t \in Tasks : InFlight(t) ~> Done(t)

\* C14 witness: one operation has returned the pairing-result timeout and
\* another the connection timeout, no callback having resolved those waits.
C14_Witness ==
    \E t, u \in Tasks :
        /\ Done(t) /\ task[t].first_pair = None /\ task[t].timeout = 30
        /\ Done(u) /\ task[u].connected_in = {} /\ task[u].timeout = 60

\* C15: while the service is serving and the heartbeat loop has stopped (a
\* HeartBeat() call raised), the health check reports unhealthy.
C15_HealthReportsStoppedPump ==
    (lifespan = "serving" /\ heartbeat_task = "finished")
        => health.status = "unhealthy"

\* C16: every startup step in which QueryAllZoomRoomsServices returned an
\* error code or raised restores no room, completes startup and starts the
\* heartbeat loop.
C16_StartupFailsSoftly ==
    [][\A query \in {"error", "raise"}, stored \in {"none", "worker", "noworker"} :
          Startup(query, stored)
              => /\ lifespan' = "serving"
                 /\ heartbeat_task' = "running"
                 /\ rooms' = <<>>]_vars

\* C17 (under SpecOps): every step in which unpair_room, get_room_status,
\* start_instant_meeting, join_meeting or exit_meeting serves a request for a
\* room id that is not in the registry answers 404, makes no driver call, and
\* leaves the registry, the sinks and the driver's sessions as they were: the
\* room is not created.
C17_UnknownRoomNotFound ==
    [][(/\ reply' # reply
        /\ reply'.op \in {"unpair_room", "get_room_status", "start_instant_meeting",
                           "join_meeting", "exit_meeting"}
        /\ reply'.room_id \notin DOMAIN rooms)
          => /\ reply'.response.status = 404
             /\ reply'.calls = {}
             /\ UNCHANGED <<rooms, room_sinks, premeeting_sinks, sessions,
                            driver_calls, task>>]_vars

\* C17 witness: a request for a room id the registry does not hold has been
\* served while the registry holds another room with a pair operation waiting.
C17_Witness ==
    /\ reply.op = "get_room_status"
    /\ reply.room_id \notin DOMAIN rooms
    /\ \E t \in Tasks : InFlight(t) /\ task[t].room_id # reply.room_id

\* A step of unpair_room, start_instant_meeting, join_meeting or exit_meeting
\* for room_id in which the driver call returns result.
C18_Step(room_id, result) ==
    \/ UnpairRoom(room_id, FALSE, result)
    \/ StartInstantMeeting(room_id, FALSE, result)
    \/ JoinMeeting(room_id, FALSE, result)
    \/ ExitMeeting(room_id, FALSE, result)

\* C18 (under SpecOps): every such step for a room the registry holds makes
\* exactly one driver call and answers in the same step with the driver's code
\* as result and success true exactly when the code is ZRCSDKERR_SUCCESS; it
\* changes no sink (no pair_event, connected_event, pair_result or
\* connection_state of any room) and no pair operation's state.
C18_SingleDriverCall ==
    [][\A room_id \in RoomIds, result \in DriverResults :
          (C18_Step(room_id, result) /\ room_id \in DOMAIN rooms)
              => /\ reply'.response.status = 200
                 /\ reply'.response.body.result = result
                 /\ reply'.response.body.success = (result = 0)
                 /\ Cardinality(reply'.calls) = 1
                 /\ UNCHANGED <<room_sinks, premeeting_sinks, task, rooms,
                                sessions>>]_vars

\* C18 witness: unpair_room has answered with the driver's failure code for a
\* room on which a pair operation is waiting for its pairing result.
C18_Witness ==
    /\ reply.op = "unpair_room"
    /\ reply.response.status = 200
    /\ reply.response.body.result = ZRCSDKERR_WRONG_USAGE
    /\ ~reply.response.body.success
    /\ \E t \in Tasks : task[t].pc = "wait_pair" /\ task[t].room_id = reply.room_id

\* C19 (under SpecOps): every mute-audio or mute-video step for a room the
\* registry holds in which the driver call returns a non-zero code answers in
\* the same step with success false and that code, and leaves every pair
\* operation and every sink as it was: it starts no wait and leaves none
\* registered.
C19_MuteFailureNoWait ==
    [][\A room_id \in RoomIds, mute \in BOOLEAN, result \in DriverResults :
          (/\ MuteAudio(room_id, mute, result) \/ MuteVideo(room_id, mute, result)
           /\ room_id \in DOMAIN rooms
           /\ result # 0)
              => /\ reply'.response.status = 200
                 /\ ~reply'.response.body.success
                 /\ reply'.response.body.result = result
                 /\ Cardinality(reply'.calls) = 1
                 /\ UNCHANGED <<task, room_sinks, premeeting_sinks>>]_vars

\* C19 witness: mute_video has answered with the driver's failure code for a
\* room the registry holds, no pair operation being in a wait.
C19_Witness ==
    /\ reply.op = "mute_video"
    /\ reply.room_id \in DOMAIN rooms
    /\ reply.response.status = 200
    /\ reply.response.body.result = ZRCSDKERR_WRONG_USAGE
    /\ \A t \in Tasks : ~InFlight(t)

\* C20 (under SpecOps): every outcome pair_room, unpair_room,
\* start_instant_meeting, join_meeting and exit_meeting return carries a
\* result code, a success flag and a message.
C20_OutcomeHasAllFields ==
    /\ \A t \in Tasks :
          (Done(t) /\ task[t].response.kind = "json")
              => /\ task[t].response.result \in Int
                 /\ task[t].response.success \in BOOLEAN
                 /\ task[t].response.message # <<>>
    /\ (/\ reply.op \in {"unpair_room", "start_instant_meeting", "join_meeting",
                          "exit_meeting"}
        /\ reply.response.status = 200)
          => {"result", "success", "message"} \subseteq DOMAIN reply.response.body

\* A step of unpair_room, get_room_status, start_instant_meeting, join_meeting
\* or exit_meeting for room_id in which the driver call returns result (and,
\* for get_room_status, state) without raising.
C21_Step(room_id, result, state) ==
    \/ C18_Step(room_id, result)
    \/ GetRoomStatus(room_id, FALSE, result, state)

\* C21 (under SpecOps): a driver call that reports failure, or a wait that
\* times out, ends in a structured outcome and never in an internal-error
\* response: every such step for a room the registry holds answers 200, and
\* every pair operation whose driver call returned has not ended in a 500.
C21_FailuresAreOutcomes ==
    /\ [][\A room_id \in RoomIds, result \in DriverResults, state \in ConnectionStates :
             (C21_Step(room_id, result, state) /\ room_id \in DOMAIN rooms)
                 => reply'.response.status = 200]_vars
    /\ [](\A t \in Tasks :
             (Done(t) /\ task[t].call_result # None)
                 => task[t].response.kind = "json")

\* C22: no two pair operations wait on the pair_event of the same room at the
\* same time, and no two on its connected_event.
C22_OneWaiterPerEvent ==
    \A t, u \in Tasks :
        (t # u /\ task[t].room_id = task[u].room_id)
            => /\ ~(task[t].pc = "wait_pair" /\ task[u].pc = "wait_pair")
               /\ ~(task[t].pc = "wait_conn" /\ task[u].pc = "wait_conn")

C24_OneSessionPerId ==
    \A i, j \in DOMAIN sessions : sessions[i] = sessions[j] => i = j

\* C25: while the heartbeat loop is running, the next tick can be issued in
\* every state, however many pair operations are suspended in their waits.
C25_PumpNotStarved ==
    (lifespan = "serving" /\ heartbeat_task = "running"
       /\ \E t \in Tasks : task[t].pc \in {"wait_pair", "wait_conn"})
        => ENABLED HeartBeat(FALSE)

\* C25 witness: with every request suspended in a wait, the driver has
\* delivered a callback to one of them (from inside a tick issued while they
\* waited) and the heartbeat loop is still running.
C25_Witness ==
    /\ heartbeat_task = "running"
    /\ \A t \in Tasks : task[t].pc \in {"wait_pair", "wait_conn"}
    /\ \E t \in Tasks : task[t].first_pair # None

\* What the service holds about one room: its two sinks, where registered,
\* and the pair operations on it.
C26_RoomView(room_id) ==
    <<IF room_id \in DOMAIN room_sinks THEN <<room_sinks[room_id]>> ELSE <<>>,
      IF room_id \in DOMAIN premeeting_sinks
      THEN <<premeeting_sinks[room_id]>> ELSE <<>>,
      [t \in Tasks |-> IF task[t].room_id = room_id THEN task[t] ELSE IdleTask]>>

\* A step that concerns room_id: a callback of its sinks, a pair request for it
\* (with its event reset), or a deadline or resumption of an operation on it.
C26_Concerns(room_id) ==
    \/ \E result \in PairCodes : OnPairRoomResult(room_id, result)
    \/ \E state \in ConnectionStates : OnZRConnectionStateChanged(room_id, state)
    \/ \E t \in Tasks, reg_room \in DriverResults, reg_pre \in DriverResults,
          result \in DriverResults :
          PairRoom(t, room_id, reg_room, reg_pre, result)
    \/ \E t \in Tasks :
          /\ task[t].room_id = room_id
          /\ \/ PairResultDeadline(t) \/ ResumeAfterPairResult(t)
             \/ ConnectionDeadline(t) \/ ResumeAfterConnected(t)

\* C26: a step that concerns room a leaves everything the service holds about
\* any other room b as it was: the sinks of b, and the state of every pair
\* operation on b (none of them is resolved, reset or ended).
C26_RoutedPerRoom ==
    [][\A a \in RoomIds, b \in RoomIds :
          (a # b /\ C26_Concerns(a)) => C26_RoomView(b)' = C26_RoomView(b)]_vars

\* C26 witness: an operation on one room is still suspended in its
\* pairing-result wait, having seen no callback, while an operation on the
\* other room has been resolved by a pairing result and has returned.
C26_Witness ==
    \E t, u \in Tasks :
        /\ task[t].room_id # task[u].room_id
        /\ task[t].pc = "wait_pair" /\ task[t].first_pair = None
        /\ Done(u) /\ task[u].pair_result # None

\* C27 (under SpecCancel): a cancellation of a waiting pair operation removes
\* its wait and returns nothing; from then on no step changes the operation
\* (no callback resolves it); and a later operation on the room leaves its
\* pairing-result wait only by an OnPairRoomResult delivered after it began,
\* never by one delivered between the cancellation and its own event reset.
C27_CancelRemovesWait ==
    /\ [][\A t \in Tasks :
             /\ Cancel(t) => (task'[t].pc = "cancelled"
                               /\ task'[t].response = NoResponse)
             /\ task[t].pc = "cancelled" => task'[t] = task[t]]_vars
    /\ [](\A t, u \in Tasks :
             (/\ task[t].pc = "cancelled" /\ t < u
              /\ task[u].room_id = task[t].room_id
              /\ (task[u].pc \in {"woken_pair", "wait_conn", "woken_conn"}
                     \/ task[u].pair_result # None))
                 => task[u].first_pair # None)

\* C27 witness: an operation was cancelled in its pairing-result wait having
\* seen no callback, the sink has since received a pairing result, and a later
\* operation on the room is suspended in its pairing-result wait, unresolved.
C27_Witness ==
    \E t, u \in Tasks :
        /\ t < u
        /\ task[t].pc = "cancelled" /\ task[t].first_pair = None
        /\ task[u].room_id = task[t].room_id
        /\ room_sinks[task[t].room_id].pair_result # None
        /\ task[u].pc = "wait_pair" /\ task[u].first_pair = None

\* C28: the connection_state a room's PreMeetingServiceSink holds is None (not
\* known) when the sink is created, becomes the state carried by a callback in
\* the step that delivers it, and is changed by no other step: it is always
\* the state of the last callback delivered to the room.
C28_LastStateRecorded ==
    [][\A room_id \in RoomIds :
          /\ \A state \in ConnectionStates :
                OnZRConnectionStateChanged(room_id, state)
                    => premeeting_sinks'[room_id].connection_state = state
          /\ (room_id \in DOMAIN premeeting_sinks'
                 /\ room_id \notin DOMAIN premeeting_sinks)
                => premeeting_sinks'[room_id].connection_state = "None"
          /\ (room_id \in DOMAIN premeeting_sinks
                 /\ ~\E state \in ConnectionStates :
                        OnZRConnectionStateChanged(room_id, state))
                => /\ room_id \in DOMAIN premeeting_sinks'
                   /\ premeeting_sinks'[room_id].connection_state =
                         premeeting_sinks[room_id].connection_state]_vars

\* C28 witness: a room whose operation saw a Connected state change now
\* records Disconnected, the state of a later callback.
C28_Witness ==
    \E t \in Tasks :
        /\ task[t].connected_in # {}
        /\ premeeting_sinks[task[t].room_id].connection_state =
              ConnectionStateDisconnected

\* C29: the registry only grows. A room id that is in self.rooms before a step
\* is in it after the step, mapped to the same service; no step of startup,
\* pairing (successful or failed), unpairing or shutdown removes or replaces
\* an entry.
C29_RegistryOnlyGrows ==
    [][\A room_id \in DOMAIN rooms :
          /\ room_id \in DOMAIN rooms'
          /\ rooms'[room_id] = rooms[room_id]]_vars

\* C29 witness: the service has shut down after a pairing that failed to
\* start and a successful unpair, and both rooms are still registered.
C29_Witness ==
    /\ lifespan = "stopped"
    /\ reply.op = "unpair_room"
    /\ reply.response.status = 200
    /\ reply.response.body.success
    /\ reply.room_id \in DOMAIN rooms
    /\ \E t \in Tasks :
          /\ task[t].response = FailedToInitiate(ZRCSDKERR_WRONG_USAGE)
          /\ task[t].room_id \in DOMAIN rooms
          /\ task[t].room_id # reply.room_id

\* The calls restoration must not make: a pairing call or a create call.
C30_NoPairNoCreate ==
    \A call \in driver_calls' :
        call[1] \notin {"PairRoomWithActivationCode", "CreateZoomRoomsService"}

\* C30 as stated: after a startup whose query succeeded, the room the driver
\* enumerated is in the registry, whether or not its info carries a worker,
\* and no pairing or create call was issued.
C30_EveryEnumeratedRoomRestored ==
    [][\A stored \in {"worker", "noworker"} :
          Startup("ok", stored)
              => /\ StoredRoom \in DOMAIN rooms'
                 /\ C30_NoPairNoCreate]_vars

\* C30, amended: after a startup whose query succeeded, an enumerated room
\* whose info carries a worker is in the registry under its id with that
\* worker, the driver's own session for the room, as its service; an
\* enumerated room whose info carries no worker is skipped and the registry
\* stays empty; either way no pairing call and no create call was issued.
C30_RoomsWithWorkerRestored ==
    [][/\ Startup("ok", "worker")
          => /\ DOMAIN rooms' = {StoredRoom}
             /\ rooms'[StoredRoom] = Len(sessions')
             /\ sessions' = Append(sessions, StoredRoom)
             /\ C30_NoPairNoCreate
       /\ Startup("ok", "noworker")
          => /\ rooms' = rooms
             /\ sessions' = sessions
             /\ C30_NoPairNoCreate]_vars

\* C30 witness: the service is serving with the stored room restored, and
\* the driver has been asked neither to pair nor to create a session.
C30_Witness ==
    /\ lifespan = "serving"
    /\ StoredRoom \in DOMAIN rooms
    /\ sessions = <<StoredRoom>>
    /\ \A call \in driver_calls :
          call[1] \notin {"PairRoomWithActivationCode", "CreateZoomRoomsService"}
    /\ \A t \in Tasks : task[t].pc = "idle"

\* The positions a pair_room request can be observed in.
C31_Positions ==
    {"idle", "wait_pair", "woken_pair", "wait_conn", "woken_conn", "done",
     "cancelled"}

\* The step is one of request t alone: no callback is delivered, no heartbeat
\* iteration ends, and no other request moves.
C31_Alone(t) ==
    /\ delivered' = delivered
    /\ hb_errors' = hb_errors
    /\ heartbeat_task' = heartbeat_task
    /\ reply' = reply
    /\ \A u \in Tasks \ {t} : task'[u] = task[u]

\* C31: a pair operation is suspended only in its two waits.  A request is
\* never observed between its entry and the pairing-result wait, nor between
\* reading the pairing result and the connection wait: the step that takes
\* it from idle resets both events and calls the driver, and ends with the
\* request returned or waiting on a pair_event that is still clear; the step
\* that reads the pairing result ends with the request returned or in the
\* connection wait, the wait resolved exactly when connected_event is set at
\* that moment.  In both steps nothing else happens.
C31_SuspendsOnlyInWaits ==
    /\ [](\A t \in Tasks : task[t].pc \in C31_Positions)
    /\ [][\A t \in Tasks :
            /\ (task[t].pc = "idle" /\ task'[t].pc # "idle")
                  => /\ C31_Alone(t)
                     /\ task'[t].pc \in {"done", "wait_pair"}
                     /\ task'[t].pc = "wait_pair"
                          => /\ task'[t].call_result = Some(ZRCSDKERR_SUCCESS)
                             /\ ~room_sinks'[task'[t].room_id].pair_event
                             /\ ~premeeting_sinks'[task'[t].room_id].connected_event
                             /\ <<"PairRoomWithActivationCode", task'[t].room_id>>
                                   \in driver_calls'
            /\ (task[t].pc = "woken_pair" /\ task'[t].pc # "woken_pair")
                  => /\ C31_Alone(t)
                     /\ room_sinks' = room_sinks
                     /\ premeeting_sinks' = premeeting_sinks
                     /\ task'[t].pair_result = room_sinks[task[t].room_id].pair_result
                     /\ task'[t].pc \in {"done", "wait_conn", "woken_conn"}
                     /\ task'[t].pc = "done" <=> task'[t].pair_result # Some(0)
                     /\ task'[t].pc = "woken_conn"
                          => premeeting_sinks[task[t].room_id].connected_event
                     /\ task'[t].pc = "wait_conn"
                          => ~premeeting_sinks[task[t].room_id].connected_event]_vars

\* C31 witness: a request has passed both steps and is in the connection
\* wait after callbacks were delivered, while another request is under way.
C31_Witness ==
    \E t, u \in Tasks :
        /\ t # u
        /\ task[t].pc = "wait_conn"
        /\ task[t].pair_result = Some(0)
        /\ task[u].pc \in {"wait_pair", "woken_pair"}
        /\ delivered > 0

\* C32: list_rooms answers 200 with a list that has exactly one entry for
\* each room of the registry and no other entry; the entry of a room whose
\* query raised has connection_state "unknown", that of a room for which
\* GetConnectionState returned an error code has "error", and the other
\* entries carry the state the driver returned.  No outcome for one room
\* ends the listing or removes another room's entry.
C32_OneEntryPerRoom ==
    [][\A outcome \in [DOMAIN rooms -> ListOutcomes] :
          ListRooms(outcome) =>
              LET listed == reply'.response.body.rooms IN
              /\ reply'.response.status = 200
              /\ Len(listed) = Cardinality(DOMAIN rooms)
              /\ \A room_id \in DOMAIN rooms :
                    \E i \in DOMAIN listed :
                        /\ listed[i].room_id = room_id
                        /\ \A j \in DOMAIN listed :
                              listed[j].room_id = room_id => j = i
                        /\ listed[i].connection_state =
                              IF outcome[room_id].raises THEN "unknown"
                              ELSE IF outcome[room_id].result # ZRCSDKERR_SUCCESS
                              THEN "error"
                              ELSE StateStr(outcome[room_id].state)]_vars

\* C32 witness: a listing of two rooms in which the query of one room raised
\* and the other returned an error code.
C32_Witness ==
    /\ reply.op = "list_rooms"
    /\ Cardinality(DOMAIN rooms) = 2
    /\ \E i, j \in DOMAIN reply.response.body.rooms :
          /\ reply.response.body.rooms[i].connection_state = "unknown"
          /\ reply.response.body.rooms[j].connection_state = "error"

\* C33: shutdown tears nothing down and stops the pump first.  No step calls
\* DestroyInstance, and the step of RoomManager.shutdown leaves every session
\* and registry entry as it was; when it runs, the heartbeat task is no longer
\* running; and whenever the SDK reference is unset or the service is past
\* serving, the heartbeat task is not running, no HeartBeat() can be issued and
\* the driver delivers no callback.
C33_PumpStoppedNothingDestroyed ==
    /\ [](\A call \in driver_calls : call[1] # "DestroyInstance")
    /\ [][Shutdown => /\ heartbeat_task # "running"
                      /\ sessions' = sessions
                      /\ rooms' = rooms
                      /\ driver_calls' = driver_calls]_vars
    /\ []((sdk = "None" \/ lifespan \in {"stopping", "stopped", "failed"})
            => /\ heartbeat_task # "running"
               /\ ~ENABLED HeartBeat(FALSE)
               /\ ~ENABLED HeartBeat(TRUE)
               /\ ~DriverDelivers)

\* C33 witness: the service has shut down after ticks that delivered
\* callbacks; the heartbeat task was cancelled, the SDK reference released
\* and the session the driver created is still there.
C33_Witness ==
    /\ lifespan = "stopped"
    /\ sdk = "None"
    /\ heartbeat_task = "cancelled"
    /\ delivered > 0
    /\ sessions # <<>>
    /\ DOMAIN rooms # {}

\* C34: a pair operation that returned the fully-connected outcome reports
\* the connection state Connected, and the step in which it returns finds
\* Connected recorded in the room's sink, whatever state changes were
\* delivered between the Connected one and the resumption of the handler.
C34_SuccessReportsConnected ==
    /\ [](\A t \in Tasks :
            (Done(t) /\ task[t].response.success)
                => task[t].response.connection_state = ConnectionStateConnected)
    /\ [][\A t \in Tasks :
            ResumeAfterConnected(t)
                => premeeting_sinks[task[t].room_id].connection_state =
                       ConnectionStateConnected]_vars

\* C35: every room of the registry, created on demand or restored at
\* startup, has a ZoomRoomsServiceSink and a PreMeetingServiceSink stored for
\* it, so that the sink lookup of pair_room finds both.
C35_RegisteredRoomsHaveSinks ==
    \A room_id \in DOMAIN rooms :
        /\ room_id \in DOMAIN room_sinks
        /\ room_id \in DOMAIN premeeting_sinks

\* The room came into the registry at startup: no session was created for it.
C36_Restored(room_id) ==
    /\ room_id \in DOMAIN rooms
    /\ <<"CreateZoomRoomsService", room_id>> \notin driver_calls

\* Some pair operation on the room read the pairing result 0.
C36_ObservedZero(room_id) ==
    \E t \in Tasks : task[t].room_id = room_id /\ task[t].pair_result = Some(0)

\* C36: a room that list_rooms reports with paired true was restored as
\* previously paired or had a pair operation read the pairing result 0, and
\* the listing does not directly follow a successful unpair of that room.
C36_ListedPairedIsPaired ==
    [][\A outcome \in [DOMAIN rooms -> ListOutcomes] :
          ListRooms(outcome) =>
              \A i \in DOMAIN reply'.response.body.rooms :
                  LET entry == reply'.response.body.rooms[i] IN
                  entry.paired =>
                      /\ C36_Restored(entry.room_id) \/ C36_ObservedZero(entry.room_id)
                      /\ ~(/\ reply.op = "unpair_room"
                           /\ reply.room_id = entry.room_id
                           /\ reply.response.status = 200
                           /\ reply.response.body.success)]_vars

====
